---- MODULE Spec2Model ----
(***************************************************************************)
(* Embedding generation (emb_database.py) and similarity search            *)
(* (search_index.py) of the PubMed semantic-search pipeline.               *)
(*                                                                         *)
(* A vector is a record [c |-> <<c1, c2>>, d |-> n] that stands for the    *)
(* row (c1/n, c2/n).  d = 0 stands for a row of NaN (the result of 0/0).   *)
(* A text is a sequence of string tokens; a PMID on disk and in the        *)
(* database is a sequence of decimal digits (the TEXT column).             *)
(***************************************************************************)
EXTENDS Integers, Naturals, Sequences, FiniteSets, TLC

\* ------------------------------------------------------------- bounds
\* Largest number of rows the database holds in the generation-only model.
MaxN == 12
\* Generation runs started in one behaviour.
MaxRuns == 2
\* Rows of the database and of a store in the search models.
MaxStore == 3
\* Largest top_k a query is made with.
MaxTopK == 4

\* ------------------------------------------------- program constants
\* batch_size = min(10, to_embed)
BatchCap == 10

Min(a, b) == IF a <= b THEN a ELSE b
Max(a, b) == IF a >= b THEN a ELSE b
Abs(a) == IF a < 0 THEN -a ELSE a

RECURSIVE Gcd(_, _)
Gcd(a, b) == IF b = 0 THEN a ELSE Gcd(b, a % b)

\* ------------------------------------------------------- python / numpy
\* seq[start:stop] with Python's rules for negative and out-of-range bounds.
PyClamp(i, n) == IF i < 0 THEN Max(i + n, 0) ELSE Min(i, n)

PySlice(seq, start, stop) ==
    LET lo == PyClamp(start, Len(seq))
        hi == PyClamp(stop, Len(seq))
    IN  IF hi <= lo THEN <<>> ELSE SubSeq(seq, lo + 1, hi)

\* list(range(0, stop, step)), step # 0.
PyRange(stop, step) ==
    LET n == IF step > 0
             THEN (IF stop > 0 THEN (stop + step - 1) \div step ELSE 0)
             ELSE (IF stop < 0 THEN ((-stop) + (-step) - 1) \div (-step) ELSE 0)
    IN  [i \in 1..n |-> (i - 1) * step]

\* arr[i] for an integer i: negative i counts from the end.
NpValidIndex(i, n) == -n <= i /\ i < n
NpIndex(arr, i) == IF i < 0 THEN arr[Len(arr) + i + 1] ELSE arr[i + 1]

\* ------------------------------------------------------- vector algebra
SumSq(c) == c[1] * c[1] + c[2] * c[2]

ISqrt(n) == CHOOSE k \in 0..n : k * k <= n /\ n < (k + 1) * (k + 1)

IsNaN(v) == v.d = 0
ZeroVec == [c |-> <<0, 0>>, d |-> 1]

\* Lowest terms, so that equal rows are equal values.
Canon(v) ==
    IF v.d = 0 THEN [c |-> <<0, 0>>, d |-> 0]
    ELSE LET g == Gcd(Gcd(Abs(v.c[1]), Abs(v.c[2])), v.d)
         IN  [c |-> <<v.c[1] \div g, v.c[2] \div g>>, d |-> v.d \div g]

\* np.linalg.norm of one row, as the rational n/d.
Norm(v) == [n |-> ISqrt(SumSq(v.c)), d |-> v.d]

\* np.where(norms == 0, 1, norms)
DivisorUnguarded(nrm) == nrm
Divisor(nrm) == IF nrm.n = 0 THEN [n |-> 1, d |-> 1] ELSE nrm

\* v / r for a row v and a scalar r = n/d; a zero or NaN scalar gives NaN.
Divide(v, r) ==
    IF v.d = 0 \/ r.d = 0 \/ r.n = 0 THEN [c |-> <<0, 0>>, d |-> 0]
    ELSE Canon([c |-> <<v.c[1] * r.d, v.c[2] * r.d>>, d |-> v.d * r.n])

\* all_embeddings / np.where(norms == 0, 1, norms), row by row.
NormalizeRows(rows) ==
    [i \in 1..Len(rows) |-> Divide(rows[i], Divisor(Norm(rows[i])))]

\* A row of unit L2 norm.
IsUnit(v) == v.d # 0 /\ SumSq(v.c) = v.d * v.d

\* ------------------------------------------------------- the database
\* None is the empty option, a present value a one-element sequence.
Digits(n) == IF n < 10 THEN <<n>> ELSE
             IF n < 100 THEN <<n \div 10, n % 10>>
             ELSE <<n \div 100, (n \div 10) % 10, n % 10>>

AbstractPool == <<"a", "b", "c", "d", "e">>

\* Row i of pubmed_articles as xml_parsing.py inserts it: pmid is unique,
\* section_title and article_title may be NULL, mesh_terms is a JSON string.
Rec(i) ==
    [pmid     |-> Digits(100 + i),
     section  |-> IF i % 3 = 0 THEN <<>> ELSE <<"J">>,
     title    |-> IF i % 4 = 0 THEN <<>> ELSE <<"T">>,
     abstract |-> AbstractPool[(i % 5) + 1],
     mesh     |-> IF i % 2 = 0 THEN "[]" ELSE "[m]"]

Database(n) == [i \in 1..n |-> Rec(i)]

\* ------------------------------------------------------- the formatter
\* An f-string renders None as the text None.
FStr(opt) == IF opt = <<>> THEN "None" ELSE opt[1]

Format(r) ==
    <<"Section Title: ", FStr(r.section),
      ", Article Title: ", FStr(r.title),
      ", Abstract: ", r.abstract,
      ", MeSH Terms: ", r.mesh>>

\* ------------------------------------------------------- the model
\* SentenceTransformer.encode of one text: a fixed function of the text.
VecPool == << <<3, 4>>, <<0, 0>>, <<4, 3>>, <<0, 5>>, <<4, 3>>, <<-3, -4>> >>

TokenCode(t) ==
    CASE t = "None" -> 1
      [] t = "b" -> 1
      [] t = "c" -> 2
      [] t = "d" -> 3
      [] t = "e" -> 4
      [] t = "q" -> 3
      [] t = "z" -> 1
      [] OTHER -> 0

RECURSIVE TextCode(_)
TextCode(text) ==
    IF text = <<>> THEN 0 ELSE TokenCode(Head(text)) + TextCode(Tail(text))

Encode(text) == [c |-> VecPool[(TextCode(text) % Len(VecPool)) + 1], d |-> 1]

EncodeBatch(texts) == [i \in 1..Len(texts) |-> Encode(texts[i])]

\* np.vstack of the batches.
RECURSIVE VStack(_)
VStack(batches) ==
    IF batches = <<>> THEN <<>> ELSE Head(batches) \o VStack(Tail(batches))

\* int(p) for a string of digits.
RECURSIVE ParseInt(_)
ParseInt(ds) ==
    IF ds = <<>> THEN 0 ELSE 10 * ParseInt(SubSeq(ds, 1, Len(ds) - 1)) + ds[Len(ds)]

\* query.strip()
RECURSIVE LStrip(_)
LStrip(s) == IF s # <<>> /\ Head(s) = " " THEN LStrip(Tail(s)) ELSE s
RECURSIVE RStrip(_)
RStrip(s) ==
    IF s # <<>> /\ s[Len(s)] = " " THEN RStrip(SubSeq(s, 1, Len(s) - 1)) ELSE s
Strip(s) == RStrip(LStrip(s))

\* ------------------------------------------------------- state
VARIABLES
    db,                 \* rows of pubmed_articles with a non-null abstract
    emb_file,           \* data/vectors/abstracts.npy
    pmid_file,          \* data/vectors/pmid_index.npy
    runs,               \* generation runs started so far
    committed,          \* the pair of files the last completed run left
    gen_pc,             \* where the generation script stands
    gen_err,            \* the exception that ended it
    all_texts, all_pmids, to_embed, batch_size,
    starts,             \* what is left of range(0, to_embed, batch_size)
    chunks,             \* every batch_texts handed to model.encode
    embeddings_batches, raw_embeddings, all_embeddings, pmid_array,
    q_pc,               \* where search_pmids_from_npy stands
    q_err,              \* the exception that ended it
    query, top_k,
    embeddings,         \* abstracts.npy as np.load returned it
    index,              \* the normalized rows added to the FAISS index
    index_run,          \* the run that wrote the matrix the query loaded
    pmids, pmids_run,   \* the identifier array the query loaded, and its run
    encoded,            \* every text the query handed to model.encode
    q_vec, indices, top_pmids

gen_vars == <<gen_pc, gen_err, all_texts, all_pmids, to_embed, batch_size,
              starts, chunks, embeddings_batches, raw_embeddings,
              all_embeddings, pmid_array>>
q_vars == <<q_pc, q_err, query, top_k, embeddings, index, index_run, pmids, pmids_run,
            encoded, q_vec, indices, top_pmids>>
disk_vars == <<emb_file, pmid_file>>
vars == <<db, emb_file, pmid_file, runs, committed, gen_vars, q_vars>>

\* A file: absent, whole (written by run `run`), or cut short by a failed write.
Absent == [state |-> "absent", run |-> 0, data |-> <<>>]
Partial(r) == [state |-> "partial", run |-> r, data |-> <<>>]
Saved(r, data) == [state |-> "ok", run |-> r, data |-> data]

GenIdle ==
    /\ gen_pc = "idle" /\ gen_err = ""
    /\ all_texts = <<>> /\ all_pmids = <<>>
    /\ to_embed = 0 /\ batch_size = 0
    /\ starts = <<>> /\ chunks = <<>>
    /\ embeddings_batches = <<>> /\ raw_embeddings = <<>>
    /\ all_embeddings = <<>> /\ pmid_array = <<>>

QIdle ==
    /\ q_pc = "idle" /\ q_err = ""
    /\ query = <<>> /\ top_k = 0
    /\ embeddings = <<>> /\ index = <<>> /\ index_run = 0
    /\ pmids = <<>> /\ pmids_run = 0
    /\ encoded = <<>> /\ q_vec = ZeroVec
    /\ indices = <<>> /\ top_pmids = <<>>

\* ------------------------------------------------------- emb_database.py
GenFail(err) == gen_pc' = "failed" /\ gen_err' = err

\* Lines 29-68: fetch every row, format it, print the first of each list.
GenFetch ==
    /\ gen_pc = "idle"
    /\ runs < MaxRuns
    /\ runs' = runs + 1
    /\ all_texts' = [i \in 1..Len(db) |-> Format(db[i])]
    /\ all_pmids' = [i \in 1..Len(db) |-> db[i].pmid]
    /\ IF Len(db) = 0
       THEN GenFail("IndexError")          \* all_texts[0] of an empty list
       ELSE gen_pc' = "input" /\ gen_err' = ""
    /\ UNCHANGED <<db, disk_vars, committed, q_vars, to_embed, batch_size,
                   starts, chunks, embeddings_batches, raw_embeddings,
                   all_embeddings, pmid_array>>

\* batch_size = min(10, to_embed)
BatchSize(te) == Min(BatchCap, te)

\* Lines 76-83: read to_embed, derive batch_size, open the range.
GenInput(inputs) ==
    /\ gen_pc = "input"
    /\ \E te \in inputs :
        /\ to_embed' = te
        /\ batch_size' = BatchSize(te)
        /\ IF BatchSize(te) = 0
           THEN /\ GenFail("ValueError")   \* range() arg 3 must not be zero
                /\ starts' = <<>>
           ELSE /\ gen_pc' = "encode" /\ gen_err' = ""
                /\ starts' = PyRange(te, BatchSize(te))
    /\ UNCHANGED <<db, disk_vars, runs, committed, q_vars, all_texts,
                   all_pmids, chunks, embeddings_batches, raw_embeddings,
                   all_embeddings, pmid_array>>

\* all_texts[start : end] with end = min(start + batch_size, to_embed)
BatchTexts(texts, start, bs, te) == PySlice(texts, start, Min(start + bs, te))

\* Lines 83-92: one pass of the loop.  encode is called with
\* batch_size = len(batch_texts); for an empty batch that is a zero step in
\* the library's own range, and the call raises.
GenEncode ==
    /\ gen_pc = "encode" /\ starts # <<>>
    /\ LET batch_texts == BatchTexts(all_texts, Head(starts), batch_size, to_embed)
       IN  /\ chunks' = Append(chunks, batch_texts)
           /\ IF batch_texts = <<>>
              THEN /\ GenFail("ValueError")
                   /\ UNCHANGED <<starts, embeddings_batches>>
              ELSE /\ embeddings_batches' =
                          Append(embeddings_batches, EncodeBatch(batch_texts))
                   /\ starts' = Tail(starts)
                   /\ UNCHANGED <<gen_pc, gen_err>>
    /\ UNCHANGED <<db, disk_vars, runs, committed, q_vars, all_texts,
                   all_pmids, to_embed, batch_size, raw_embeddings,
                   all_embeddings, pmid_array>>

\* Lines 86-91: model inference itself fails.
GenEncodeFail ==
    /\ gen_pc = "encode" /\ starts # <<>>
    /\ BatchTexts(all_texts, Head(starts), batch_size, to_embed) # <<>>
    /\ chunks' = Append(chunks,
                        BatchTexts(all_texts, Head(starts), batch_size, to_embed))
    /\ GenFail("RuntimeError")
    /\ UNCHANGED <<db, disk_vars, runs, committed, q_vars, all_texts,
                   all_pmids, to_embed, batch_size, starts,
                   embeddings_batches, raw_embeddings, all_embeddings,
                   pmid_array>>

\* pmid_array = np.array(all_pmids[:to_embed])
PmidArrayAll(ids, te) == ids
PmidArray(ids, te) == PySlice(ids, 0, te)

\* Lines 95-112: stack the batches, cut the identifiers, normalize.
GenStack ==
    /\ gen_pc = "encode" /\ starts = <<>>
    /\ IF embeddings_batches = <<>>
       THEN /\ GenFail("ValueError")       \* vstack of no arrays
            /\ UNCHANGED <<raw_embeddings, all_embeddings, pmid_array>>
       ELSE /\ raw_embeddings' = VStack(embeddings_batches)
            /\ pmid_array' = PmidArray(all_pmids, to_embed)
            /\ all_embeddings' = NormalizeRows(VStack(embeddings_batches))
            /\ gen_pc' = "rm_emb" /\ gen_err' = ""
    /\ UNCHANGED <<db, disk_vars, runs, committed, q_vars, all_texts,
                   all_pmids, to_embed, batch_size, starts, chunks,
                   embeddings_batches>>

\* Lines 117-118: delete the old matrix if it exists.
GenRemoveEmb ==
    /\ gen_pc = "rm_emb"
    /\ emb_file' = Absent
    /\ gen_pc' = "save_emb"
    /\ UNCHANGED <<db, pmid_file, runs, committed, q_vars, gen_err, all_texts,
                   all_pmids, to_embed, batch_size, starts, chunks,
                   embeddings_batches, raw_embeddings, all_embeddings,
                   pmid_array>>

\* Line 120: np.save(emb_file, all_embeddings)
GenSaveEmb ==
    /\ gen_pc = "save_emb"
    /\ emb_file' = Saved(runs, all_embeddings)
    /\ gen_pc' = "rm_pmid"
    /\ UNCHANGED <<db, pmid_file, runs, committed, q_vars, gen_err, all_texts,
                   all_pmids, to_embed, batch_size, starts, chunks,
                   embeddings_batches, raw_embeddings, all_embeddings,
                   pmid_array>>

\* Lines 125-126: delete the old identifier array if it exists.
GenRemovePmid ==
    /\ gen_pc = "rm_pmid"
    /\ pmid_file' = Absent
    /\ gen_pc' = "save_pmid"
    /\ UNCHANGED <<db, emb_file, runs, committed, q_vars, gen_err, all_texts,
                   all_pmids, to_embed, batch_size, starts, chunks,
                   embeddings_batches, raw_embeddings, all_embeddings,
                   pmid_array>>

\* Line 127: np.save(pmid_file, pmid_array); the run is complete.
GenSavePmid ==
    /\ gen_pc = "save_pmid"
    /\ pmid_file' = Saved(runs, pmid_array)
    /\ committed' = [emb |-> emb_file, pmid |-> Saved(runs, pmid_array)]
    /\ gen_pc' = "done"
    /\ UNCHANGED <<db, emb_file, runs, q_vars, gen_err, all_texts,
                   all_pmids, to_embed, batch_size, starts, chunks,
                   embeddings_batches, raw_embeddings, all_embeddings,
                   pmid_array>>

\* An OSError in os.remove / unlink (the file stays) or in np.save (the file
\* is missing or cut short).
GenIOFail ==
    /\ gen_pc \in {"rm_emb", "save_emb", "rm_pmid", "save_pmid"}
    /\ GenFail("OSError")
    /\ CASE gen_pc = "save_emb" ->
              /\ emb_file' \in {emb_file, Partial(runs)}
              /\ UNCHANGED pmid_file
         [] gen_pc = "save_pmid" ->
              /\ pmid_file' \in {pmid_file, Partial(runs)}
              /\ UNCHANGED emb_file
         [] OTHER -> UNCHANGED disk_vars
    /\ UNCHANGED <<db, runs, committed, q_vars, all_texts,
                   all_pmids, to_embed, batch_size, starts, chunks,
                   embeddings_batches, raw_embeddings, all_embeddings,
                   pmid_array>>

\* The script's process ends; its variables are gone.
GenExit ==
    /\ gen_pc \in {"done", "failed"}
    /\ gen_pc' = "idle" /\ gen_err' = ""
    /\ all_texts' = <<>> /\ all_pmids' = <<>>
    /\ to_embed' = 0 /\ batch_size' = 0
    /\ starts' = <<>> /\ chunks' = <<>>
    /\ embeddings_batches' = <<>> /\ raw_embeddings' = <<>>
    /\ all_embeddings' = <<>> /\ pmid_array' = <<>>
    /\ UNCHANGED <<db, disk_vars, runs, committed, q_vars>>

\* ------------------------------------------------------- search_index.py
QFail(err) == q_pc' = "failed" /\ q_err' = err

\* Line 30: query = input(...).strip(); top_k is the caller's argument.
QInput(texts, ks) ==
    /\ q_pc = "idle"
    /\ \E text \in texts, k \in ks :
        /\ query' = Strip(text)
        /\ top_k' = k
    /\ q_pc' = "load_emb"
    /\ UNCHANGED <<db, disk_vars, runs, committed, gen_vars, q_err, embeddings,
                   index, index_run, pmids, pmids_run, encoded, q_vec, indices,
                   top_pmids>>

\* Lines 33-40: load abstracts.npy, normalize its rows, add them to the index.
QLoadEmb ==
    /\ q_pc = "load_emb"
    /\ IF emb_file.state # "ok"
       THEN /\ QFail("OSError")
            /\ UNCHANGED <<embeddings, index, index_run>>
       ELSE /\ embeddings' = emb_file.data
            /\ index' = NormalizeRows(emb_file.data)
            /\ index_run' = emb_file.run
            /\ q_pc' = "load_pmid"
            /\ UNCHANGED q_err
    /\ UNCHANGED <<db, disk_vars, runs, committed, gen_vars, query, top_k,
                   pmids, pmids_run, encoded, q_vec, indices, top_pmids>>

\* Lines 43-45: load pmid_index.npy and cast it to int.
QLoadPmid ==
    /\ q_pc = "load_pmid"
    /\ IF pmid_file.state # "ok"
       THEN /\ QFail("OSError")
            /\ UNCHANGED <<pmids, pmids_run>>
       ELSE /\ pmids' = [i \in 1..Len(pmid_file.data) |-> ParseInt(pmid_file.data[i])]
            /\ pmids_run' = pmid_file.run
            /\ q_pc' = "encode"
            /\ UNCHANGED q_err
    /\ UNCHANGED <<db, disk_vars, runs, committed, gen_vars, query, top_k,
                   embeddings, index, index_run, encoded, q_vec, indices, top_pmids>>

\* q_vec / np.linalg.norm(q_vec): no guard on a zero norm.
QueryVec(text) == Divide(Encode(text), Norm(Encode(text)))

\* Lines 48-51: encode the query, whatever it is, and normalize it.
QEncode ==
    /\ q_pc = "encode"
    /\ encoded' = Append(encoded, query)
    /\ q_vec' = QueryVec(query)
    /\ q_pc' = "search"
    /\ UNCHANGED <<db, disk_vars, runs, committed, gen_vars, q_err, query,
                   top_k, embeddings, index, index_run, pmids, pmids_run, indices,
                   top_pmids>>

\* The inner product of a stored row and the query vector, as n/d.
Score(row, q) ==
    [n |-> row.c[1] * q.c[1] + row.c[2] * q.c[2], d |-> row.d * q.d]

ScoreLess(a, b) == a.n * b.d < b.n * a.d

\* Positions (from 0) of the rows a search can return: a NaN score is never
\* above the heap's threshold.
Candidates(rows, q) ==
    IF IsNaN(q) THEN {} ELSE {i \in 0..(Len(rows) - 1) : ~IsNaN(rows[i + 1])}

\* index.search(q_vec, k) of IndexFlatIP: the labels of the k best rows,
\* best first, padded with -1 when fewer than k rows exist.  A row replaces
\* the current worst result only when its score is strictly higher, so for
\* k = 1 the first row of maximal score is returned; for k > 1 the order
\* among rows of equal score is the library's own and is left open.
FaissSearch(rows, q, k) ==
    LET cand == Candidates(rows, q)
        m == Min(k, Cardinality(cand))
        s(i) == Score(rows[i + 1], q)
    IN  {r \in [1..k -> -1..(Len(rows) - 1)] :
            /\ \A j \in 1..k : (j <= m) <=> (r[j] \in cand)
            /\ \A j \in 1..k : j > m => r[j] = -1
            /\ \A i, j \in 1..m : i # j => r[i] # r[j]
            /\ \A j \in 1..(m - 1) : ~ScoreLess(s(r[j]), s(r[j + 1]))
            /\ \A j \in 1..m : \A c \in cand :
                   (\A i \in 1..m : r[i] # c) => ~ScoreLess(s(r[j]), s(c))
            /\ (k = 1 /\ m = 1) =>
                   \A c \in cand : c < r[1] => ScoreLess(s(c), s(r[1]))}

\* Lines 55-60: search, then pmids[indices[0]].tolist().
QSearch ==
    /\ q_pc = "search"
    /\ \E r \in FaissSearch(index, q_vec, top_k) :
        /\ indices' = r
        /\ IF \E j \in 1..top_k : ~NpValidIndex(r[j], Len(pmids))
           THEN /\ QFail("IndexError")
                /\ UNCHANGED top_pmids
           ELSE /\ top_pmids' = [j \in 1..top_k |-> NpIndex(pmids, r[j])]
                /\ q_pc' = "done"
                /\ UNCHANGED q_err
    /\ UNCHANGED <<db, disk_vars, runs, committed, gen_vars, query, top_k,
                   embeddings, index, index_run, pmids, pmids_run, encoded,
                   q_vec>>

\* The call returns or raises; its locals are gone.
QExit ==
    /\ q_pc \in {"done", "failed"}
    /\ q_pc' = "idle" /\ q_err' = ""
    /\ query' = <<>> /\ top_k' = 0
    /\ embeddings' = <<>> /\ index' = <<>> /\ index_run' = 0
    /\ pmids' = <<>> /\ pmids_run' = 0
    /\ encoded' = <<>> /\ q_vec' = ZeroVec
    /\ indices' = <<>> /\ top_pmids' = <<>>
    /\ UNCHANGED <<db, disk_vars, runs, committed, gen_vars>>

\* ------------------------------------------------------- specifications
\* What the user types at the two prompts, and the caller's top_k.
ToEmbedInputs == (-(MaxN + 1))..(MaxN + BatchCap + 1)
ConcToEmbedInputs == (-1)..(MaxStore + 1)
QueryTexts == {<<>>, <<" ">>, <<"q">>, <<" ", "q", " ">>, <<"z">>}
TopKs == 1..MaxTopK

\* Generation alone: runs of the script, one after the other, over a
\* database of any size up to MaxN, with every failure it can meet.
Init ==
    /\ db \in {Database(n) : n \in 0..MaxN}
    /\ emb_file = Absent /\ pmid_file = Absent
    /\ runs = 0
    /\ committed = [emb |-> Absent, pmid |-> Absent]
    /\ GenIdle /\ QIdle

Next ==
    \/ GenFetch
    \/ GenInput(ToEmbedInputs)
    \/ GenEncode
    \/ GenEncodeFail
    \/ GenStack
    \/ GenRemoveEmb
    \/ GenSaveEmb
    \/ GenRemovePmid
    \/ GenSavePmid
    \/ GenIOFail
    \/ GenExit

Spec == Init /\ [][Next]_vars

\* Generation and a query side by side, as two processes over the same files.
InitConc ==
    /\ db \in {Database(n) : n \in 1..MaxStore}
    /\ emb_file = Absent /\ pmid_file = Absent
    /\ runs = 0
    /\ committed = [emb |-> Absent, pmid |-> Absent]
    /\ GenIdle /\ QIdle

NextConc ==
    \/ GenFetch
    \/ GenInput(ConcToEmbedInputs)
    \/ GenEncode
    \/ GenEncodeFail
    \/ GenStack
    \/ GenRemoveEmb
    \/ GenSaveEmb
    \/ GenRemovePmid
    \/ GenSavePmid
    \/ GenIOFail
    \/ GenExit
    \/ QInput(QueryTexts, TopKs)
    \/ QLoadEmb
    \/ QLoadPmid
    \/ QEncode
    \/ QSearch
    \/ QExit

SpecConc == InitConc /\ [][NextConc]_vars

\* Generation runs and queries one after the other: a step of the script is
\* taken only while no query is under way, and a step of a query only while
\* the script is not running.
NextSeq ==
    \/ q_pc = "idle" /\ GenFetch
    \/ q_pc = "idle" /\ GenInput(ConcToEmbedInputs)
    \/ q_pc = "idle" /\ GenEncode
    \/ q_pc = "idle" /\ GenEncodeFail
    \/ q_pc = "idle" /\ GenStack
    \/ q_pc = "idle" /\ GenRemoveEmb
    \/ q_pc = "idle" /\ GenSaveEmb
    \/ q_pc = "idle" /\ GenRemovePmid
    \/ q_pc = "idle" /\ GenSavePmid
    \/ q_pc = "idle" /\ GenIOFail
    \/ q_pc = "idle" /\ GenExit
    \/ gen_pc = "idle" /\ QInput(QueryTexts, TopKs)
    \/ gen_pc = "idle" /\ QLoadEmb
    \/ gen_pc = "idle" /\ QLoadPmid
    \/ gen_pc = "idle" /\ QEncode
    \/ gen_pc = "idle" /\ QSearch
    \/ gen_pc = "idle" /\ QExit

SpecSeq == InitConc /\ [][NextSeq]_vars

\* A query alone over a store of 0..MaxStore rows, already on disk.
StoreOf(rows) ==
    [emb  |-> Saved(1, NormalizeRows(EncodeBatch([i \in 1..Len(rows) |-> Format(rows[i])]))),
     pmid |-> Saved(1, [i \in 1..Len(rows) |-> rows[i].pmid])]

InitSearch ==
    /\ db \in {Database(n) : n \in 0..MaxStore}
    /\ emb_file = StoreOf(db).emb /\ pmid_file = StoreOf(db).pmid
    /\ runs = 1
    /\ committed = StoreOf(db)
    /\ GenIdle /\ QIdle

NextSearch ==
    \/ QInput(QueryTexts, TopKs)
    \/ QLoadEmb
    \/ QLoadPmid
    \/ QEncode
    \/ QSearch
    \/ QExit

SpecSearch == InitSearch /\ [][NextSearch]_vars

\* ------------------------------------------------------- claims
\* C1: after every generation run that completes, the persisted identifier
\* array and the persisted matrix have the same length, and the identifier
\* at position i is that of the record whose formatted text gave row i.
C1_IdsAlignedWithVectors ==
    gen_pc = "done" =>
        /\ emb_file.state = "ok" /\ pmid_file.state = "ok"
        /\ Len(pmid_file.data) = Len(emb_file.data)
        /\ \A i \in 1..Len(pmid_file.data) :
              \E j \in 1..Len(db) :
                  /\ db[j].pmid = pmid_file.data[i]
                  /\ i <= Len(emb_file.data)
                  /\ emb_file.data[i] = NormalizeRows(<<Encode(Format(db[j]))>>)[1]

\* A run of two batches, asked for more texts than exist, has completed.
C1_Witness ==
    /\ gen_pc = "done"
    /\ Len(embeddings_batches) >= 2
    /\ to_embed > Len(db)
    /\ Len(pmid_file.data) = Len(db)

\* C2: a query interleaved with a generation run never works on a matrix
\* of one run and an identifier array of another.
C2_QueryLoadsMatchedPair ==
    (q_pc \in {"encode", "search", "done"} \/ (q_pc = "failed" /\ q_err = "IndexError"))
        => index_run = pmids_run

\* C3: with top_k above the number N >= 1 of stored vectors, search returns
\* exactly the N stored identifiers, each once, and raises no error.
C3_TopKAboveStoreReturnsAll ==
    (q_pc \in {"done", "failed"} /\ q_err # "OSError"
         /\ Len(index) >= 1 /\ top_k > Len(index)) =>
        /\ q_pc = "done"
        /\ Len(top_pmids) = Len(index)
        /\ \A i \in 1..Len(pmids) :
              Cardinality({j \in 1..Len(top_pmids) : top_pmids[j] = pmids[i]}) = 1

\* C4: a query of an empty store returns an empty result and no error.
C4_EmptyStoreEmptyResult ==
    (q_pc \in {"done", "failed"} /\ emb_file.state = "ok" /\ pmid_file.state = "ok"
         /\ emb_file.data = <<>> /\ pmid_file.data = <<>>) =>
        /\ q_pc = "done"
        /\ top_pmids = <<>>

\* C5: the model never encodes a query that is empty or only whitespace.
C5_EmptyQueryNeverEncoded ==
    \A i \in 1..Len(encoded) : Strip(encoded[i]) # <<>>

\* C6: when a generation run fails, the two files on disk are still the
\* matched pair the last completed run left.
C6_FailureKeepsPriorPair ==
    (gen_pc = "failed" /\ committed.emb.state = "ok") =>
        /\ emb_file = committed.emb
        /\ pmid_file = committed.pmid

\* C7: for every to_embed the batch size is at least 1, and every chunk
\* handed to the model holds at least one and at most batch_size texts and
\* does not reach past the texts that remain.
C7_BatchSizeAndChunksBounded ==
    (gen_pc \notin {"idle", "input"} /\ gen_err # "IndexError") =>
        /\ batch_size >= 1
        /\ \A i \in 1..Len(chunks) :
              /\ 1 <= Len(chunks[i])
              /\ Len(chunks[i]) <= batch_size
              /\ Len(chunks[i]) <= Len(all_texts) - (i - 1) * batch_size

\* C8: an absent section title or article title is rendered as the empty
\* string in the text built for embedding, never as the text None.
C8_AbsentFieldRenderedEmpty ==
    \A i \in 1..Len(all_texts) :
        /\ db[i].section = <<>> => all_texts[i][2] = ""
        /\ db[i].title = <<>> => all_texts[i][4] = ""

\* C9: normalization, before storing and again on load, maps every
\* non-zero row to a row of unit norm and leaves a zero row unchanged; no
\* component is NaN or infinite.
C9_NormalizationGuarded ==
    /\ \A i \in 1..Len(all_embeddings) :
          /\ ~IsNaN(all_embeddings[i])
          /\ SumSq(raw_embeddings[i].c) = 0 => all_embeddings[i] = raw_embeddings[i]
          /\ SumSq(raw_embeddings[i].c) # 0 => IsUnit(all_embeddings[i])
    /\ emb_file.state = "ok" => \A i \in 1..Len(emb_file.data) : ~IsNaN(emb_file.data[i])
    /\ \A i \in 1..Len(index) :
          /\ ~IsNaN(index[i])
          /\ SumSq(embeddings[i].c) = 0 => index[i] = embeddings[i]
          /\ SumSq(embeddings[i].c) # 0 => IsUnit(index[i])

\* A completed run stored a zero row and a non-zero row, and a query has
\* loaded and normalized both.
C9_Witness ==
    /\ gen_pc = "done"
    /\ \E i \in 1..Len(raw_embeddings) : SumSq(raw_embeddings[i].c) = 0
    /\ \E i \in 1..Len(raw_embeddings) : SumSq(raw_embeddings[i].c) # 0
    /\ q_pc = "search"
    /\ \E i \in 1..Len(index) : index[i] = ZeroVec
    /\ \E i \in 1..Len(index) : IsUnit(index[i])

\* Positions of the store ordered by descending score, equal scores by
\* position of first appearance.
StableRank(rows, q, p) ==
    Cardinality({o \in 0..(Len(rows) - 1) :
        \/ ScoreLess(Score(rows[p + 1], q), Score(rows[o + 1], q))
        \/ (Score(rows[p + 1], q).n * Score(rows[o + 1], q).d
              = Score(rows[o + 1], q).n * Score(rows[p + 1], q).d /\ o < p)})

StableTopK(rows, q, k) ==
    [j \in 1..k |-> CHOOSE p \in 0..(Len(rows) - 1) : StableRank(rows, q, p) = j - 1]

\* C10: for 1 <= top_k <= N search returns the identifiers of the top_k
\* rows of highest inner product, in descending score order, ties broken
\* by position of first appearance in the store.
C10_TopKDescendingStableTies ==
    (q_pc = "done" /\ ~IsNaN(q_vec) /\ 1 <= top_k /\ top_k <= Len(index)) =>
        top_pmids = [j \in 1..top_k |->
                        pmids[StableTopK(index, q_vec, top_k)[j] + 1]]

\* C11: when generation runs and queries do not overlap in time, the index
\* a query uses is built from the matrix persisted by the most recent
\* completed run, and the identifier array it maps positions through is
\* the one persisted by that same run.
C11_QueryUsesLatestCompletedRun ==
    (q_pc \in {"encode", "search", "done"} \/ (q_pc = "failed" /\ q_err = "IndexError")) =>
        /\ committed.emb.state = "ok"
        /\ index_run = committed.emb.run
        /\ embeddings = committed.emb.data
        /\ pmids_run = committed.pmid.run
        /\ pmids = [i \in 1..Len(committed.pmid.data) |->
                       ParseInt(committed.pmid.data[i])]

====
